---- MODULE Spec2Model ----
(***************************************************************************)
(* Market-data aggregation layer of analytics/utils.py and the stock part  *)
(* of the asset_catalog view (analytics/views.py).                         *)
(*                                                                         *)
(* Python floats are modelled as exact rationals [n, d] in lowest terms;   *)
(* JSON values of a provider body as records [k, v]; an exception raised   *)
(* by a statement as a result record whose exc field names its class.      *)
(***************************************************************************)
EXTENDS Integers, Sequences, FiniteSets, TLC

VARIABLES
    environ,                    \* os.environ: which credentials are configured
    now,                        \* time.time(), in seconds
    _coingecko_map_cache,       \* module global: lower-cased symbol -> CoinGecko id
    _coingecko_map_cached_at,   \* module global: time of the last successful build, or None
    call                        \* the call that has just returned (op = "none": no call)

vars == <<environ, now, _coingecko_map_cache, _coingecko_map_cached_at, call>>

-----------------------------------------------------------------------------
(* Bounds of the model.                                                    *)

MaxSymbols == 2       \* longest symbol list handed to a quote fetcher
MaxCloses == 2        \* longest closes array of a candle response
MaxRows == 2          \* most HistoricalPrice rows of the last 24 hours
MaxTicks == 2         \* how often the clock advances
MaxPoints == 3                \* prices of a series handed to the renderer
StartTime == 1000     \* time.time() when the process starts
TickStep == 1800      \* seconds the clock advances per Tick

-----------------------------------------------------------------------------
(* Python values.                                                          *)

None == [k |-> "null", v |-> 0]
Num(n) == [k |-> "num", v |-> n]
Str == [k |-> "str", v |-> 0]            \* a string that is not a number

Abs(x) == IF x < 0 THEN -x ELSE x

RECURSIVE GCD(_, _)
GCD(a, b) == IF b = 0 THEN a ELSE GCD(b, a % b)

\* the rational n/d, d # 0, in lowest terms with a positive denominator
Frac(n, d) ==
    LET g == GCD(Abs(n), Abs(d))
        s == IF d < 0 THEN -1 ELSE 1
    IN  [n |-> (s * n) \div g, d |-> (s * d) \div g]

FAdd(x, y) == Frac(x.n * y.d + y.n * x.d, x.d * y.d)
FSub(x, y) == Frac(x.n * y.d - y.n * x.d, x.d * y.d)
FMul(x, y) == Frac(x.n * y.n, x.d * y.d)
FDiv(x, y) == Frac(x.n * y.d, x.d * y.n)
FLt(x, y) == x.n * y.d < y.n * x.d
FLe(x, y) == x.n * y.d <= y.n * x.d

\* result of a statement: exc = "none" and a value, or the exception raised
Ok(v) == [exc |-> "none", val |-> v]
Raise(e) == [exc |-> e, val |-> None]

\* float(x) of a JSON value
float(x) ==
    CASE x.k = "num" -> Ok(Frac(x.v, 1))
      [] x.k = "null" -> Raise("TypeError")
      [] OTHER -> Raise("ValueError")

\* x in (None, 0)
InNoneOrZero(x) == x.k = "null" \/ (x.k = "num" /\ x.v = 0)

\* str.upper(), str.lower(), str.strip() on the symbols of the model
upper(s) ==
    CASE s = "aapl" -> "AAPL"
      [] s = "btc" -> "BTC"
      [] s = "abc" -> "ABC"
      [] s = "Abc" -> "ABC"
      [] OTHER -> s

lower(s) ==
    CASE s = "AAPL" -> "aapl"
      [] s = "MSFT" -> "msft"
      [] s = "BTC" -> "btc"
      [] s = "ABC" -> "abc"
      [] s = "Abc" -> "abc"
      [] s = "BCH" -> "bch"
      [] OTHER -> s

strip(s) ==
    CASE s = " " -> ""
      [] s = " abc " -> "abc"
      [] OTHER -> s

Range(s) == {s[i] : i \in 1..Len(s)}

\* the sequences over S of length at most n
SeqsUpTo(S, n) == UNION {[1..k -> S] : k \in 0..n}

\* the orders in which a set can be iterated
Orders(S) == {o \in [1..Cardinality(S) -> S] : Range(o) = S}

EmptyDict == [x \in {} |-> None]

\* dict d with d[key] = value stored
Store(d, key, value) ==
    [x \in DOMAIN d \cup {key} |-> IF x = key THEN value ELSE d[x]]

-----------------------------------------------------------------------------
(* Outbound HTTP: requests.get, raise_for_status, json.                    *)

\* a response of a provider: the transport outcome, the status, whether the
\* body parses as JSON, and the parsed body
Response(net, status, parses, body) ==
    [net |-> net, status |-> status, parses |-> parses, body |-> body]

NoBody == [dict |-> FALSE]

\* resp = requests.get(...); resp.raise_for_status(); resp.json()
get_json(resp) ==
    IF resp.net # "ok" THEN Raise(resp.net)
    ELSE IF resp.status >= 400 THEN Raise("HTTPError")
    ELSE IF ~resp.parses THEN Raise("JSONDecodeError")
    ELSE Ok(resp.body)

-----------------------------------------------------------------------------
(* fetch_current_stock_prices                                              *)

\* os.environ.get('FINNHUB_API_KEY') or os.environ.get('FINNHUB_KEY') is set
finnhub_api_key == environ.FINNHUB_API_KEY \/ environ.FINNHUB_KEY

\* os.environ.get('CMC_API_KEY') is set
cmc_api_key == environ.CMC_API_KEY

QuoteBody(c, pc) == [dict |-> TRUE, c |-> c, pc |-> pc, t |-> Num(1)]

\* the answers of the Finnhub /quote endpoint the model draws from
QuoteResponses ==
    { Response("ok", 200, TRUE, QuoteBody(Num(110), Num(100))),
      Response("ok", 200, TRUE, QuoteBody(Num(90), Num(100))),
      Response("ok", 200, TRUE, QuoteBody(Num(110), None)),
      Response("ok", 200, TRUE, QuoteBody(Num(110), Num(0))),
      Response("ok", 200, TRUE, QuoteBody(Num(0), Num(0))),
      Response("ok", 200, TRUE, QuoteBody(None, None)),
      Response("ok", 200, TRUE, QuoteBody(Str, Num(100))),
      Response("ok", 200, TRUE, QuoteBody(Num(90), Str)),
      Response("ok", 200, TRUE, NoBody),
      Response("ok", 500, TRUE, NoBody),
      Response("Timeout", 0, FALSE, NoBody) }

NoEntry == [present |-> FALSE]

\* variant: the change as a fraction, not scaled to percent
percent_change_fraction(price, pc) ==
    IF InNoneOrZero(pc) THEN None
    ELSE LET f == float(pc)
         IN  IF f.exc # "none" THEN None
             ELSE IF f.val.n = 0 THEN None
             ELSE FDiv(FSub(price, f.val), f.val)

\* percent_change of lines 101-107
percent_change_of(price, pc) ==
    IF InNoneOrZero(pc) THEN None
    ELSE LET f == float(pc)
         IN  IF f.exc # "none" THEN None
             ELSE IF f.val.n = 0 THEN None
             ELSE FMul(FDiv(FSub(price, f.val), f.val), Frac(100, 1))

\* the body of the per-symbol try of lines 86-117: the entry stored under the
\* symbol, or NoEntry when the iteration ends in a continue
quote_entry(resp) ==
    LET r == get_json(resp)
    IN  IF r.exc # "none" THEN NoEntry                 \* except Exception: continue
        ELSE IF ~r.val.dict THEN NoEntry               \* payload.get raises
        ELSE IF r.val.c.k = "null" THEN NoEntry        \* if c is None: continue
        ELSE LET p == float(r.val.c)
             IN  IF p.exc # "none" THEN NoEntry        \* except (TypeError, ValueError)
                 ELSE [present |-> TRUE, price |-> p.val,
                       percent_change |-> percent_change_of(p.val, r.val.pc),
                       timestamp |-> r.val.t.v, prev_close |-> r.val.pc]

\* variant: the symbols are requested as they were passed
upper_list_as_given(order) == SelectSeq(order, LAMBDA s : s # "")

\* [s.upper() for s in <set iterated in this order> if s]
upper_list(order) ==
    LET nonempty == SelectSeq(order, LAMBDA s : s # "")
    IN  [i \in 1..Len(nonempty) |-> upper(nonempty[i])]

RECURSIVE stock_loop_abort(_, _, _, _)
\* variant: no per-symbol try, the first failing request ends the loop
stock_loop_abort(syms, resps, i, result) ==
    IF i > Len(syms) THEN [ret |-> result, reqs |-> syms]
    ELSE IF get_json(resps[i]).exc # "none"
         THEN [ret |-> EmptyDict, reqs |-> SubSeq(syms, 1, i)]
         ELSE LET e == quote_entry(resps[i])
              IN  stock_loop_abort(syms, resps, i + 1,
                      IF e.present THEN Store(result, syms[i], e) ELSE result)

RECURSIVE stock_loop(_, _, _, _)
\* for sym in symbols (lines 84-117): the result and the requests issued
stock_loop(syms, resps, i, result) ==
    IF i > Len(syms) THEN [ret |-> result, reqs |-> syms]
    ELSE LET e == quote_entry(resps[i])
         IN  stock_loop(syms, resps, i + 1,
                        IF e.present THEN Store(result, syms[i], e) ELSE result)

\* fetch_current_stock_prices(symbols): order is the iteration order of
\* set(symbols), resps[i] the answer to the i-th request
fetch_current_stock_prices(order, resps) ==
    IF ~finnhub_api_key
    THEN [raised |-> FALSE, ret |-> EmptyDict, reqs |-> <<>>]
    ELSE LET syms == upper_list(order)
         IN  IF syms = <<>>
             THEN [raised |-> FALSE, ret |-> EmptyDict, reqs |-> <<>>]
             ELSE LET r == stock_loop(syms, resps, 1, EmptyDict)
                  IN  [raised |-> FALSE, ret |-> r.ret, reqs |-> r.reqs]

-----------------------------------------------------------------------------
(* fetch_current_crypto_prices                                             *)

\* an entry of the data object of the CoinMarketCap answer
ItemKinds == {"absent", "usd", "notdict"}

CmcBody(data) == [dict |-> TRUE, data |-> data]

CryptoUpper == {"BTC", "ABC"}

\* the answers of the CoinMarketCap quotes endpoint the model draws from
CmcResponses ==
    { Response("ok", 200, TRUE, CmcBody(d)) : d \in [CryptoUpper -> ItemKinds] }
    \cup { Response("ok", 200, TRUE, NoBody),
           Response("ok", 200, FALSE, NoBody),
           Response("ok", 401, TRUE, NoBody),
           Response("ConnectionError", 0, FALSE, NoBody) }

\* item.get('quote', {}).get(convert, {}) of an item quoted in USD only
cmc_entry(convert) ==
    IF convert = "USD"
    THEN [price |-> Num(50000), percent_change_24h |-> Num(2)]
    ELSE [price |-> None, percent_change_24h |-> None]

RECURSIVE cmc_loop_no_skip(_, _, _, _, _)
\* variant: the "if not item: continue" of line 50 is missing
cmc_loop_no_skip(syms, data, convert, i, result) ==
    IF i > Len(syms) THEN Ok(result)
    ELSE IF data[syms[i]] # "usd" THEN Raise("AttributeError")
    ELSE cmc_loop_no_skip(syms, data, convert, i + 1,
                          Store(result, syms[i], cmc_entry(convert)))

RECURSIVE cmc_loop(_, _, _, _, _)
\* for sym in symbols (lines 48-58)
cmc_loop(syms, data, convert, i, result) ==
    IF i > Len(syms) THEN Ok(result)
    ELSE IF data[syms[i]] = "absent"                      \* if not item: continue
         THEN cmc_loop(syms, data, convert, i + 1, result)
    ELSE IF data[syms[i]] = "notdict" THEN Raise("AttributeError")   \* item.get
    ELSE cmc_loop(syms, data, convert, i + 1,
                  Store(result, syms[i], cmc_entry(convert)))

\* fetch_current_crypto_prices(symbols, convert): order is the iteration order
\* of set(symbols), resp the answer to the one request
fetch_current_crypto_prices(order, convert, resp) ==
    IF ~cmc_api_key
    THEN [raised |-> FALSE, ret |-> EmptyDict, reqs |-> <<>>]
    ELSE LET syms == upper_list(order)
         IN  IF syms = <<>>
             THEN [raised |-> FALSE, ret |-> EmptyDict, reqs |-> <<>>]
             ELSE LET r == get_json(resp)
                      res == IF r.exc # "none" THEN r
                             ELSE IF ~r.val.dict THEN Raise("AttributeError")
                             ELSE cmc_loop(syms, r.val.data, convert, 1, EmptyDict)
                  IN  [raised |-> FALSE,           \* except Exception: return {}
                       ret |-> IF res.exc = "none" THEN res.val ELSE EmptyDict,
                       reqs |-> <<syms>>]

-----------------------------------------------------------------------------
(* fetch_24h_series, STOCK path                                            *)

CandleBody(status, closes) == [dict |-> TRUE, s |-> status, c |-> closes]

\* the close values a candle response may hold
CloseValues == {Num(5), Num(0), Num(-1), None, Str}

\* the answers of the Finnhub /stock/candle endpoint the model draws from
CandleResponses ==
    { Response("ok", 200, TRUE, CandleBody("ok", c)) :
          c \in SeqsUpTo(CloseValues, MaxCloses) }
    \cup { Response("ok", 200, TRUE, CandleBody("no_data", <<>>)),
           Response("ok", 200, TRUE, CandleBody("no_data", <<Num(5)>>)),
           Response("ok", 200, TRUE, [dict |-> FALSE, s |-> "", c |-> <<>>]),
           Response("ok", 200, FALSE, [dict |-> FALSE, s |-> "", c |-> <<>>]),
           Response("ok", 403, TRUE, [dict |-> FALSE, s |-> "", c |-> <<>>]),
           Response("ok", 500, TRUE, [dict |-> FALSE, s |-> "", c |-> <<>>]),
           Response("ConnectionError", 0, FALSE, [dict |-> FALSE, s |-> "", c |-> <<>>]) }

\* bool(response) of the requests library: Response.__bool__ is Response.ok
response_truthy(resp) == resp.status < 400

RECURSIVE valid_closes_with_zero(_)
\* variant: only null closes are dropped
valid_closes_with_zero(closes) ==
    IF closes = <<>> THEN <<>>
    ELSE LET x == Head(closes)
             rest == valid_closes_with_zero(Tail(closes))
         IN  IF x = None THEN rest
             ELSE IF float(x).exc # "none" THEN rest
             ELSE <<float(x).val>> \o rest

RECURSIVE valid_closes(_)
\* lines 205-211: the closes that are neither None nor 0, as floats; a value
\* float() rejects is skipped
valid_closes(closes) ==
    IF closes = <<>> THEN <<>>
    ELSE LET x == Head(closes)
             rest == valid_closes(Tail(closes))
         IN  IF InNoneOrZero(x) THEN rest
             ELSE IF float(x).exc # "none" THEN rest
             ELSE <<float(x).val>> \o rest

\* the try body of lines 185-222
candle_try(resp) ==
    LET r == get_json(resp)
    IN  IF r.exc # "none" THEN [exc |-> r.exc, val |-> <<>>, log |-> "none"]
        ELSE IF ~r.val.dict
             THEN [exc |-> "AttributeError", val |-> <<>>, log |-> "none"]
        ELSE IF r.val.s # "ok"
             THEN [exc |-> "none", val |-> <<>>, log |-> "warning"]
        ELSE IF r.val.c = <<>>
             THEN [exc |-> "none", val |-> <<>>, log |-> "warning"]
        ELSE LET result == valid_closes(r.val.c)
             IN  [exc |-> "none", val |-> result,
                  log |-> IF result # <<>> THEN "info" ELSE "warning"]

\* variant: only the HTTPError and RequestException handlers, no "except Exception"
stock_series_unguarded(resp) ==
    LET t == candle_try(resp)
    IN  IF t.exc = "none" THEN [raised |-> FALSE, ret |-> t.val, log |-> t.log]
        ELSE IF t.exc \in {"HTTPError", "ConnectionError", "Timeout"}
             THEN [raised |-> FALSE, ret |-> <<>>, log |-> "error"]
        ELSE [raised |-> TRUE, ret |-> <<>>, log |-> "none"]

\* lines 184-244: the try with its three handlers
stock_series(resp) ==
    LET t == candle_try(resp)
    IN  IF t.exc = "none" THEN [raised |-> FALSE, ret |-> t.val, log |-> t.log]
        ELSE IF t.exc = "HTTPError"
             THEN LET status_code == IF response_truthy(resp) THEN resp.status ELSE 0
                  IN  [raised |-> FALSE, ret |-> <<>>,
                       log |-> IF status_code = 403 THEN "warning" ELSE "error"]
        ELSE IF t.exc \in {"ConnectionError", "Timeout", "JSONDecodeError"}
             THEN [raised |-> FALSE, ret |-> <<>>, log |-> "error"]
        ELSE [raised |-> FALSE, ret |-> <<>>, log |-> "exception"]

\* fetch_24h_series(symbol, 'STOCK'): lines 167-244
fetch_24h_series_stock(symbol, resp) ==
    IF strip(symbol) = ""
    THEN [raised |-> FALSE, ret |-> <<>>, log |-> "none", reqs |-> <<>>]
    ELSE IF ~finnhub_api_key
    THEN [raised |-> FALSE, ret |-> <<>>, log |-> "warning", reqs |-> <<>>]
    ELSE LET r == stock_series(resp)
         IN  [raised |-> r.raised, ret |-> r.ret, log |-> r.log,
              reqs |-> <<[ep |-> "candle", arg |-> strip(symbol)]>>]

-----------------------------------------------------------------------------
(* asset_catalog: the stock section of the view                            *)

num_points == 24              \* points of the interpolated series
single_price_points == 24     \* copies of the price in the single-price series

\* HistoricalPrice rows of the asset over the last 24 hours, oldest first, or
\* a database error
DbOutcomes ==
    { [error |-> TRUE, rows |-> <<>>] }
    \cup { [error |-> FALSE, rows |-> r] : r \in SeqsUpTo({Num(5), Num(7)}, MaxRows) }

\* stock_prices.get(a.ticker.upper(), {})
pdata_of(stock_prices, ticker) ==
    IF upper(ticker) \in DOMAIN stock_prices THEN stock_prices[upper(ticker)]
    ELSE NoEntry

\* pdata.get('price') and pdata.get('prev_close')
pdata_price(pdata) == IF pdata.present THEN pdata.price ELSE None
pdata_prev_close(pdata) == IF pdata.present THEN pdata.prev_close ELSE None

\* variant: progress = i / num_points
interpolate_short(prev_price, curr_price) ==
    [j \in 1..num_points |->
        FAdd(prev_price,
             FMul(FSub(curr_price, prev_price), Frac(j - 1, num_points)))]

\* lines 346-356: prev + (curr - prev) * (i / (num_points - 1)), i = 0..num_points-1
interpolate(prev_price, curr_price) ==
    [j \in 1..num_points |->
        FAdd(prev_price,
             FMul(FSub(curr_price, prev_price), Frac(j - 1, num_points - 1)))]

\* variant: a missing price defaults to 0
quote_fallback_default_zero(pdata) ==
    LET pc == pdata_prev_close(pdata)
        price == IF pdata.present THEN pdata.price ELSE Frac(0, 1)
    IN  IF ~InNoneOrZero(pc)
        THEN IF float(pc).exc # "none" THEN <<>>
             ELSE interpolate(float(pc).val, price)
        ELSE [j \in 1..single_price_points |-> price]

\* variant: only a missing previous close selects the single-price series
quote_fallback_zero_prev(pdata) ==
    LET pc == pdata_prev_close(pdata)
        price == pdata_price(pdata)
    IN  IF price # None /\ pc.k # "null"
        THEN IF float(pc).exc # "none" THEN <<>>
             ELSE interpolate(float(pc).val, price)
        ELSE IF price # None
        THEN [j \in 1..single_price_points |-> price]
        ELSE <<>>

\* lines 331-370: the series of the quote stage
quote_fallback(pdata) ==
    LET pc == pdata_prev_close(pdata)
        price == pdata_price(pdata)
    IN  IF price # None /\ ~InNoneOrZero(pc)
        THEN IF float(pc).exc # "none" THEN <<>>      \* except: series = []
             ELSE interpolate(float(pc).val, price)
        ELSE IF price # None
        THEN [j \in 1..single_price_points |-> price]
        ELSE <<>>

\* lines 307-326: the series of the persisted-history stage
history_fallback(db) ==
    IF db.error THEN <<>>
    ELSE [j \in 1..Len(db.rows) |-> float(db.rows[j]).val]

Stage(name, series) == [stage |-> name, series |-> series]

\* variant: the quote stage is consulted before the persisted history
stock_cascade_swapped(api, history, quote) ==
    IF api # <<>> THEN <<Stage("candle", api)>>
    ELSE IF quote # <<>> THEN <<Stage("candle", api), Stage("quote", quote)>>
    ELSE <<Stage("candle", api), Stage("quote", quote), Stage("history", history)>>

\* lines 300-370: the stages consulted, in order, each with the series it
\* gave; history and quote are what those stages give when consulted
stock_cascade(api, history, quote) ==
    IF api # <<>> THEN <<Stage("candle", api)>>                      \* if not series
    ELSE IF history # <<>>                                           \* if not series
    THEN <<Stage("candle", api), Stage("history", history)>>
    ELSE <<Stage("candle", api), Stage("history", history), Stage("quote", quote)>>

\* lines 372-378: the series handed to sparkline_svg_from_prices, if any
sparkline_of(series) ==
    IF series # <<>> THEN [drawn |-> TRUE, prices |-> series]
    ELSE [drawn |-> FALSE, prices |-> <<>>]

\* the asset after the loop body of lines 286-384
asset_after(pdata, stages, reqs) ==
    [pdata |-> pdata,
     current_price |-> pdata_price(pdata),
     change_24h |-> IF pdata.present THEN pdata.percent_change ELSE None,
     stages |-> stages,
     series |-> stages[Len(stages)].series,
     sparkline |-> sparkline_of(stages[Len(stages)].series),
     reqs |-> reqs]

quote_requests(syms) == [i \in 1..Len(syms) |-> [ep |-> "quote", arg |-> syms[i]]]

asset_stages(pdata, api, db, reqs) ==
    asset_after(pdata,
                stock_cascade(api.ret, history_fallback(db), quote_fallback(pdata)),
                reqs \o api.reqs)

asset_priced(stock_prices, ticker, candle_resp, db) ==
    asset_stages(pdata_of(stock_prices.ret, ticker),
                 fetch_24h_series_stock(ticker, candle_resp), db,
                 quote_requests(stock_prices.reqs))

\* lines 283-384 for the one stock asset of the table: its quote, the stages
\* of its series, and the series handed to sparkline_svg_from_prices
asset_catalog_stock(ticker, quote_resps, candle_resp, db) ==
    asset_priced(fetch_current_stock_prices(<<ticker>>, quote_resps),
                 ticker, candle_resp, db)

-----------------------------------------------------------------------------
(* The CoinGecko symbol map: _ensure_coingecko_map                         *)

TTL == 3600                   \* seconds a built map stays fresh

_COINGECKO_MANUAL_OVERRIDES ==
    ("btc" :> "bitcoin") @@ ("eth" :> "ethereum") @@ ("usdt" :> "tether")

EmptyMap == [x \in {} |-> ""]

\* d.get(key), with "" for None
Get(d, key) == IF key \in DOMAIN d THEN d[key] ELSE ""

\* an entry of /coins/list or a candidate of /search; "" is a missing field
Coin(symbol, id) == [symbol |-> symbol, id |-> id]

ListBody(items) == [list |-> TRUE, items |-> items]
NoList == [list |-> FALSE, items |-> <<>>]

\* the answers of /coins/list the model draws from
CatalogResponses ==
    { Response("ok", 200, TRUE,
               ListBody(<<Coin("BTC", "bitcoin-cash"), Coin("abc", "abc-coin"),
                          Coin("ABC", "abc-token"), Coin("", "orphan")>>)),
      Response("ok", 200, TRUE, ListBody(<<Coin("eth", "ethereum-wormhole")>>)),
      Response("ok", 200, TRUE, NoList),
      Response("ok", 429, TRUE, NoList),
      Response("Timeout", 0, FALSE, NoList) }

RECURSIVE index_catalog(_, _)
\* lines 143-150: index by lower-cased symbol, the first entry of a symbol wins
index_catalog(items, m) ==
    IF items = <<>> THEN m
    ELSE LET it == Head(items)
             key == lower(it.symbol)
         IN  index_catalog(Tail(items),
                 IF it.symbol # "" /\ it.id # "" /\ key \notin DOMAIN m
                 THEN Store(m, key, it.id) ELSE m)

\* variant: the overrides replace catalog entries but add no key
merge_overrides_present(m) ==
    [k \in DOMAIN m |->
        IF k \in DOMAIN _COINGECKO_MANUAL_OVERRIDES
        THEN _COINGECKO_MANUAL_OVERRIDES[k] ELSE m[k]]

\* lines 152-153: merge the manual overrides, manual wins
merge_overrides(m) ==
    [k \in DOMAIN m \cup DOMAIN _COINGECKO_MANUAL_OVERRIDES |->
        IF k \in DOMAIN _COINGECKO_MANUAL_OVERRIDES
        THEN _COINGECKO_MANUAL_OVERRIDES[k] ELSE m[k]]

\* variant: a built map never expires
map_is_fresh_forever ==
    /\ _coingecko_map_cached_at.k = "num" /\ _coingecko_map_cached_at.v # 0
    /\ DOMAIN _coingecko_map_cache # {}

\* line 137: the cached map is fresh
map_is_fresh ==
    /\ _coingecko_map_cached_at.k = "num" /\ _coingecko_map_cached_at.v # 0
    /\ now - _coingecko_map_cached_at.v < TTL
    /\ DOMAIN _coingecko_map_cache # {}

\* variant: a failed catalog request empties the map and its timestamp
_ensure_coingecko_map_clearing(resp) ==
    IF map_is_fresh
    THEN [cache |-> _coingecko_map_cache, cached_at |-> _coingecko_map_cached_at,
          requested |-> FALSE, rebuilt |-> FALSE]
    ELSE LET r == get_json(resp)
         IN  IF r.exc # "none" \/ ~r.val.list
             THEN [cache |-> EmptyMap, cached_at |-> None,
                   requested |-> TRUE, rebuilt |-> FALSE]
             ELSE [cache |-> merge_overrides(index_catalog(r.val.items, EmptyMap)),
                   cached_at |-> Num(now),
                   requested |-> TRUE, rebuilt |-> TRUE]

\* _ensure_coingecko_map(): the globals after the call and the request made
_ensure_coingecko_map(resp) ==
    IF map_is_fresh
    THEN [cache |-> _coingecko_map_cache, cached_at |-> _coingecko_map_cached_at,
          requested |-> FALSE, rebuilt |-> FALSE]
    ELSE LET r == get_json(resp)
         IN  IF r.exc # "none" \/ ~r.val.list                    \* except Exception
             THEN [cache |-> _coingecko_map_cache,
                   cached_at |-> _coingecko_map_cached_at,
                   requested |-> TRUE, rebuilt |-> FALSE]
             ELSE [cache |-> merge_overrides(index_catalog(r.val.items, EmptyMap)),
                   cached_at |-> Num(now),
                   requested |-> TRUE, rebuilt |-> TRUE]

-----------------------------------------------------------------------------
(* fetch_24h_series, CRYPTO path                                           *)

SearchBody(coins) == [dict |-> TRUE, coins |-> coins]
NoCoins == [dict |-> FALSE, coins |-> <<>>]

\* the answers of /search the model draws from
SearchResponses ==
    { Response("ok", 200, TRUE, SearchBody(<<>>)),
      Response("ok", 200, TRUE,
               SearchBody(<<Coin("BCH", "bitcoin-cash"), Coin("ABC", "abc-token")>>)),
      Response("ok", 200, TRUE, SearchBody(<<Coin("BCH", "bitcoin-cash")>>)),
      Response("ConnectionError", 0, FALSE, NoCoins) }

ChartBody(prices) == [dict |-> TRUE, prices |-> prices]
NoPrices == [dict |-> FALSE, prices |-> <<>>]

\* the answers of /coins/{id}/market_chart the model draws from; a price
\* point [t, v] is given by its v
ChartResponses ==
    { Response("ok", 200, TRUE, ChartBody(<<>>)),
      Response("ok", 200, TRUE, ChartBody(<<Num(5), Num(7)>>)),
      Response("ok", 200, TRUE, ChartBody(<<Num(-1)>>)),
      Response("ok", 200, TRUE, ChartBody(<<Num(5), None>>)),
      Response("ok", 404, TRUE, NoPrices),
      Response("Timeout", 0, FALSE, NoPrices) }

\* variant: the override is applied at build time only
resolve_cid_no_override(cache, key) == Get(cache, key)

\* lines 250-253: the map entry, replaced by the manual override of the symbol
resolve_cid(cache, key) ==
    IF key \in DOMAIN _COINGECKO_MANUAL_OVERRIDES
    THEN _COINGECKO_MANUAL_OVERRIDES[key]
    ELSE Get(cache, key)

\* variant: the search endpoint is queried whether or not an id is known
needs_search_always(cid) == TRUE

\* line 258: if not cid
needs_search(cid) == cid = ""

\* variant: the first candidate is taken whatever its symbol
search_find_first(coins, symbol) ==
    IF coins # <<>> THEN coins[1].id ELSE ""

\* lines 266-273 and 320-327: the candidate whose symbol matches, else the first
search_find(coins, symbol) ==
    LET exact == {i \in 1..Len(coins) : lower(coins[i].symbol) = lower(symbol)}
        found == IF exact = {} THEN ""
                 ELSE coins[CHOOSE i \in exact : \A j \in exact : i <= j].id
    IN  IF found = "" /\ coins # <<>> THEN coins[1].id ELSE found

\* the search request and the choice of a candidate: "" when none is found,
\* also when the request or its body fails (except Exception)
search_id(resp, symbol) ==
    LET r == get_json(resp)
    IN  IF r.exc # "none" \/ ~r.val.dict THEN ""
        ELSE search_find(r.val.coins, symbol)

\* try_fetch_for_cid (lines 286-293)
try_fetch_for_cid(resp) ==
    LET r == get_json(resp)
    IN  IF r.exc # "none" THEN Raise(r.exc)
        ELSE IF ~r.val.dict THEN Raise("AttributeError")
        ELSE [exc |-> "none", val |-> r.val.prices]

\* [float(p[1]) for p in prices]
price_floats(prices) ==
    IF \E i \in 1..Len(prices) : float(prices[i]).exc # "none"
    THEN [exc |-> "TypeError", val |-> <<>>]
    ELSE [exc |-> "none", val |-> [i \in 1..Len(prices) |-> float(prices[i]).val]]

\* the series an attempt returns, <<>> when it returns none
attempt_series(fetched) ==
    IF fetched.exc = "none" /\ fetched.val # <<>>
       /\ price_floats(fetched.val).exc = "none"
    THEN price_floats(fetched.val).val
    ELSE <<>>

Request(ep, arg) == [ep |-> ep, arg |-> arg]

\* what a CRYPTO call leaves: its result, its requests in order, the globals
crypto_return(ret, reqs, cache, e, stored_on_miss, stored_on_retry) ==
    [raised |-> FALSE, ret |-> ret, reqs |-> reqs,
     cache |-> cache, cached_at |-> e.cached_at, rebuilt |-> e.rebuilt,
     stored_on_miss |-> stored_on_miss, stored_on_retry |-> stored_on_retry]

\* variant: the searched id is stored before the second attempt is made
crypto_second_store_first(key, e, cache, reqs, stored, found2, second) ==
    IF second.exc = "none" /\ second.val # <<>>
    THEN crypto_return(attempt_series(second), reqs, Store(cache, key, found2),
                       e, stored, TRUE)
    ELSE crypto_return(<<>>, reqs, Store(cache, key, found2), e, stored, TRUE)

\* lines 332-342: the second market-chart attempt, its id stored when it
\* returns prices
crypto_second(key, e, cache, reqs, stored, found2, second) ==
    IF second.exc = "none" /\ second.val # <<>>
    THEN crypto_return(attempt_series(second), reqs, Store(cache, key, found2),
                       e, stored, TRUE)
    ELSE crypto_return(<<>>, reqs, cache, e, stored, FALSE)

\* variant: a second attempt that raises is made once more
crypto_retry_again(key, e, cache, reqs, stored, found2, chart2) ==
    IF found2 = "" THEN crypto_return(<<>>, reqs, cache, e, stored, FALSE)
    ELSE crypto_second(key, e, cache,
                       reqs \o (IF try_fetch_for_cid(chart2).exc = "none"
                                THEN <<Request("market_chart", found2)>>
                                ELSE <<Request("market_chart", found2),
                                       Request("market_chart", found2)>>),
                       stored, found2, try_fetch_for_cid(chart2))

\* lines 313-347: the search after a first attempt without prices
crypto_retry(key, e, cache, reqs, stored, found2, chart2) ==
    IF found2 = "" THEN crypto_return(<<>>, reqs, cache, e, stored, FALSE)
    ELSE crypto_second(key, e, cache, reqs \o <<Request("market_chart", found2)>>,
                       stored, found2, try_fetch_for_cid(chart2))

\* lines 295-311: the first market-chart attempt
crypto_first(sym, e, cache, reqs, stored, series1, search2, chart2) ==
    IF series1 # <<>> THEN crypto_return(series1, reqs, cache, e, stored, FALSE)
    ELSE crypto_retry(lower(sym), e, cache, reqs \o <<Request("search", sym)>>,
                      stored, search_id(search2, sym), chart2)

\* lines 283-284: no id, no series
crypto_fetch(sym, e, cid, cache, reqs, stored, chart1, search2, chart2) ==
    IF cid = "" THEN crypto_return(<<>>, reqs, cache, e, FALSE, FALSE)
    ELSE crypto_first(sym, e, cache, reqs \o <<Request("market_chart", cid)>>,
                      stored, attempt_series(try_fetch_for_cid(chart1)),
                      search2, chart2)

\* lines 274-279: an id found by the search is stored under the symbol
crypto_searched(sym, e, cid0, reqs, found1, chart1, search2, chart2) ==
    IF found1 # ""
    THEN crypto_fetch(sym, e, found1, Store(e.cache, lower(sym), found1), reqs,
                      TRUE, chart1, search2, chart2)
    ELSE crypto_fetch(sym, e, cid0, e.cache, reqs, FALSE, chart1, search2, chart2)

\* lines 258-282: the search for a symbol without an id
crypto_lookup(sym, e, cid0, reqs, search1, chart1, search2, chart2) ==
    IF needs_search(cid0)
    THEN crypto_searched(sym, e, cid0, reqs \o <<Request("search", sym)>>,
                         search_id(search1, sym), chart1, search2, chart2)
    ELSE crypto_fetch(sym, e, cid0, e.cache, reqs, FALSE, chart1, search2, chart2)

\* lines 249-257: the map is ensured, the symbol looked up
crypto_resolve(sym, e, search1, chart1, search2, chart2) ==
    crypto_lookup(sym, e, resolve_cid(e.cache, lower(sym)),
                  IF e.requested THEN <<Request("coins_list", "")>> ELSE <<>>,
                  search1, chart1, search2, chart2)

\* fetch_24h_series(symbol, 'CRYPTO'): lines 167-169 and 247-351.  The result,
\* the globals after the call, and the requests issued in order
fetch_24h_series_crypto(symbol, catalog, search1, chart1, search2, chart2) ==
    IF strip(symbol) = ""
    THEN [raised |-> FALSE, ret |-> <<>>, reqs |-> <<>>,
          cache |-> _coingecko_map_cache, cached_at |-> _coingecko_map_cached_at,
          rebuilt |-> FALSE, stored_on_miss |-> FALSE, stored_on_retry |-> FALSE]
    ELSE crypto_resolve(strip(symbol), _ensure_coingecko_map(catalog),
                        search1, chart1, search2, chart2)

-----------------------------------------------------------------------------
(* The calls.  A call runs its handler to completion in one step and leaves *)
(* its arguments, result and requests in call; Return hands the result to   *)
(* the caller.                                                              *)

NoCall == [op |-> "none"]

StockSymbols == {"", "AAPL", "aapl", "MSFT"}
CryptoQuoteSymbols == {"", "BTC", "btc", "Abc"}
Tickers == {"AAPL", "aapl"}
SeriesSymbols == {"", "BTC", "eth", " abc "}
Currencies == {"USD", "EUR"}

\* a response that carries a non-empty list of prices
HasPrices(resp) ==
    /\ resp.net = "ok" /\ resp.status < 400 /\ resp.parses /\ resp.body.dict
    /\ IF "prices" \in DOMAIN resp.body THEN resp.body.prices # <<>>
       ELSE resp.body.s = "ok" /\ resp.body.c # <<>>

Requests(reqs, ep) == {i \in 1..Len(reqs) : reqs[i].ep = ep}

\* the answers a request may get, or one placeholder when it is not issued
IfIssued(issued, responses) ==
    IF issued THEN responses ELSE {CHOOSE r \in responses : TRUE}

Return ==
    /\ call.op # "none"
    /\ call' = NoCall
    /\ UNCHANGED <<environ, now, _coingecko_map_cache, _coingecko_map_cached_at>>

Tick ==
    /\ call.op = "none"
    /\ now + TickStep <= StartTime + MaxTicks * TickStep
    /\ now' = now + TickStep
    /\ UNCHANGED <<environ, _coingecko_map_cache, _coingecko_map_cached_at, call>>

FetchCurrentStockPrices ==
    /\ call.op = "none"
    /\ \E symbols \in SeqsUpTo(StockSymbols, MaxSymbols) :
       \E order \in Orders(Range(symbols)) :
       \E resps \in [1..(IF finnhub_api_key THEN Len(upper_list(order)) ELSE 0)
                     -> QuoteResponses] :
          LET r == fetch_current_stock_prices(order, resps)
          IN  call' = [op |-> "fetch_current_stock_prices", symbols |-> symbols,
                       resps |-> resps, raised |-> r.raised, ret |-> r.ret,
                       reqs |-> r.reqs]
    /\ UNCHANGED <<environ, now, _coingecko_map_cache, _coingecko_map_cached_at>>

FetchCurrentCryptoPrices ==
    /\ call.op = "none"
    /\ \E symbols \in SeqsUpTo(CryptoQuoteSymbols, MaxSymbols) :
       \E order \in Orders(Range(symbols)) :
       \E convert \in Currencies :
       \E resp \in IfIssued(cmc_api_key /\ upper_list(order) # <<>>,
                            CmcResponses) :
          LET r == fetch_current_crypto_prices(order, convert, resp)
          IN  call' = [op |-> "fetch_current_crypto_prices", symbols |-> symbols,
                       convert |-> convert, resp |-> resp, raised |-> r.raised,
                       ret |-> r.ret, reqs |-> r.reqs]
    /\ UNCHANGED <<environ, now, _coingecko_map_cache, _coingecko_map_cached_at>>

\* asset_catalog with one STOCK asset and no CRYPTO asset in the table (the
\* crypto section, lines 239-281, then issues no request)
AssetCatalog ==
    /\ call.op = "none"
    /\ \E ticker \in Tickers :
       \E quote_resps \in [1..(IF finnhub_api_key THEN 1 ELSE 0)
                           -> QuoteResponses] :
       \E candle_resp \in IfIssued(finnhub_api_key, CandleResponses) :
       \E db \in IfIssued(fetch_24h_series_stock(ticker, candle_resp).ret = <<>>,
                          DbOutcomes) :
          LET r == asset_catalog_stock(ticker, quote_resps, candle_resp, db)
          IN  call' = [op |-> "asset_catalog", ticker |-> ticker,
                       candle |-> candle_resp, db |-> db, pdata |-> r.pdata,
                       current_price |-> r.current_price,
                       change_24h |-> r.change_24h, stages |-> r.stages,
                       series |-> r.series, sparkline |-> r.sparkline,
                       reqs |-> r.reqs]
    /\ UNCHANGED <<environ, now, _coingecko_map_cache, _coingecko_map_cached_at>>

Fetch24hSeriesStock ==
    /\ call.op = "none"
    /\ \E symbol \in {"", "AAPL"} :
       \E resp \in IfIssued(strip(symbol) # "" /\ finnhub_api_key,
                            CandleResponses) :
          LET r == fetch_24h_series_stock(symbol, resp)
          IN  call' = [op |-> "fetch_24h_series", symbol |-> symbol,
                       asset_type |-> "STOCK", candle |-> resp,
                       raised |-> r.raised, ret |-> r.ret,
                       reqs |-> r.reqs, log |-> r.log,
                       obtained |-> r.reqs # <<>> /\ HasPrices(resp),
                       rebuilt |-> FALSE, stored_on_miss |-> FALSE,
                       stored_on_retry |-> FALSE]
    /\ UNCHANGED <<environ, now, _coingecko_map_cache, _coingecko_map_cached_at>>

Fetch24hSeriesCrypto ==
    /\ call.op = "none"
    /\ \E symbol \in SeriesSymbols :
       \E catalog \in IfIssued(strip(symbol) # "" /\ ~map_is_fresh, CatalogResponses) :
       \E search1 \in IfIssued(strip(symbol) # ""
                                 /\ needs_search(resolve_cid(
                                        _ensure_coingecko_map(catalog).cache,
                                        lower(strip(symbol)))),
                               SearchResponses) :
       \E chart1 \in IfIssued(strip(symbol) # ""
                                /\ (resolve_cid(_ensure_coingecko_map(catalog).cache,
                                                lower(strip(symbol))) # ""
                                    \/ search_id(search1, strip(symbol)) # ""),
                              ChartResponses) :
       \E search2 \in IfIssued(attempt_series(try_fetch_for_cid(chart1)) = <<>>,
                               SearchResponses) :
       \E chart2 \in IfIssued(search_id(search2, strip(symbol)) # "", ChartResponses) :
       \E r \in {fetch_24h_series_crypto(symbol, catalog, search1, chart1,
                                         search2, chart2)} :
          /\ call' = [op |-> "fetch_24h_series", symbol |-> symbol,
                      asset_type |-> "CRYPTO", catalog |-> catalog,
                      search1 |-> search1, chart1 |-> chart1,
                      search2 |-> search2, chart2 |-> chart2,
                      raised |-> r.raised,
                      ret |-> r.ret, reqs |-> r.reqs, log |-> "debug",
                      obtained |->
                          \/ Cardinality(Requests(r.reqs, "market_chart")) >= 1
                             /\ HasPrices(chart1)
                          \/ Cardinality(Requests(r.reqs, "market_chart")) >= 2
                             /\ HasPrices(chart2),
                      rebuilt |-> r.rebuilt, stored_on_miss |-> r.stored_on_miss,
                      stored_on_retry |-> r.stored_on_retry]
          /\ _coingecko_map_cache' = r.cache
          /\ _coingecko_map_cached_at' = r.cached_at
    /\ UNCHANGED <<environ, now>>

\* variant: the symbol map is ensured before the asset type is looked at
Fetch24hSeriesOtherEnsuring ==
    /\ call.op = "none"
    /\ \E symbol \in {"", "AAPL"} :
       \E catalog \in CatalogResponses :
          /\ call' = [op |-> "fetch_24h_series", symbol |-> symbol,
                      asset_type |-> "BOND", raised |-> FALSE, ret |-> <<>>,
                      reqs |-> <<>>, log |-> "none", obtained |-> FALSE,
                      rebuilt |-> FALSE, stored_on_miss |-> FALSE,
                      stored_on_retry |-> FALSE]
          /\ _coingecko_map_cache' = _ensure_coingecko_map(catalog).cache
          /\ _coingecko_map_cached_at' = _ensure_coingecko_map(catalog).cached_at
    /\ UNCHANGED <<environ, now>>

\* an asset type that is neither STOCK nor CRYPTO: line 353
Fetch24hSeriesOther ==
    /\ call.op = "none"
    /\ \E symbol \in {"", "AAPL"} :
          call' = [op |-> "fetch_24h_series", symbol |-> symbol,
                   asset_type |-> "BOND", raised |-> FALSE, ret |-> <<>>,
                   reqs |-> <<>>, log |-> "none", obtained |-> FALSE,
                   rebuilt |-> FALSE, stored_on_miss |-> FALSE,
                   stored_on_retry |-> FALSE]
    /\ UNCHANGED <<environ, now, _coingecko_map_cache, _coingecko_map_cached_at>>

Environments ==
    [FINNHUB_API_KEY : BOOLEAN, FINNHUB_KEY : BOOLEAN, CMC_API_KEY : BOOLEAN]

\* fetch_24h_series and the renderer read no CoinMarketCap key
SeriesEnvironments == {e \in Environments : ~e.CMC_API_KEY}

\* the process after import: no map, no timestamp
Init ==
    /\ environ \in SeriesEnvironments
    /\ now = StartTime
    /\ _coingecko_map_cache = EmptyMap
    /\ _coingecko_map_cached_at = None
    /\ call = NoCall

Next ==
    \/ Tick
    \/ Fetch24hSeriesStock
    \/ Fetch24hSeriesCrypto
    \/ Fetch24hSeriesOther
    \/ Return

\* the series calls and the symbol map
Spec == Init /\ [][Next]_vars

\* the page: the quote fetchers and the view, none of which reads the map
InitPage ==
    /\ environ \in Environments
    /\ now = StartTime
    /\ _coingecko_map_cache = EmptyMap
    /\ _coingecko_map_cached_at = None
    /\ call = NoCall

NextPage ==
    \/ FetchCurrentStockPrices
    \/ FetchCurrentCryptoPrices
    \/ AssetCatalog
    \/ Return

SpecPage == InitPage /\ [][NextPage]_vars

-----------------------------------------------------------------------------
(* The sparkline renderer: sparkline_svg_from_prices (lines 356-405).  A    *)
(* drawing is the svg element with its attributes, the polyline points as  *)
(* the hundredths printed by the format '.2f'.                             *)

UpColor == "#1ca01c"
DownColor == "#e53935"
NeutralColor == "#888"

\* the values a series may hold
RenderValues == {None, Num(0), Num(100), Num(105), Num(-100), Str}
Widths == {120, 140}
Heights == {28, 36}
Strokes == {"#1ca01c", "#0000ff"}

\* f'{x:.2f}' of x >= 0: the hundredths nearest to x, a tie going to the even one
fmt2(x) ==
    LET q == (x.n * 100) \div x.d
        r == (x.n * 100) % x.d
    IN  IF 2 * r > x.d \/ (2 * r = x.d /\ q % 2 = 1) THEN q + 1 ELSE q

RECURSIVE to_pts_unfiltered(_)
\* variant: [float(x) for x in prices]
to_pts_unfiltered(prices) ==
    IF prices = <<>> THEN Ok(<<>>)
    ELSE LET rest == to_pts_unfiltered(Tail(prices))
         IN  IF float(Head(prices)).exc # "none" THEN Raise(float(Head(prices)).exc)
             ELSE IF rest.exc # "none" THEN rest
             ELSE Ok(<<float(Head(prices)).val>> \o rest.val)

RECURSIVE to_pts(_)
\* line 365: [float(x) for x in prices if x is not None]
to_pts(prices) ==
    IF prices = <<>> THEN Ok(<<>>)
    ELSE LET rest == to_pts(Tail(prices))
         IN  IF Head(prices) = None THEN rest
             ELSE IF float(Head(prices)).exc # "none"
                  THEN Raise(float(Head(prices)).exc)
             ELSE IF rest.exc # "none" THEN rest
             ELSE Ok(<<float(Head(prices)).val>> \o rest.val)

\* min(pts) and max(pts) of a non-empty list
min(pts) == CHOOSE x \in Range(pts) : \A y \in Range(pts) : FLe(x, y)
max(pts) == CHOOSE x \in Range(pts) : \A y \in Range(pts) : FLe(y, x)

\* line 371: span = mx - mn if mx != mn else 1.0
span_of(pts) == IF max(pts) # min(pts) THEN FSub(max(pts), min(pts)) ELSE Frac(1, 1)

\* variant: a single point is drawn as it is
duplicate_single_off(pts) == pts

\* lines 374-376: one data point is duplicated
duplicate_single(pts) == IF Len(pts) = 1 THEN <<pts[1], pts[1]>> ELSE pts

\* variant: step_x = width / n
step_x_by_count(width, n) == Frac(width, n)

\* line 377: step_x = width / max(1, (n - 1))
step_x(width, n) == Frac(width, IF n - 1 > 1 THEN n - 1 ELSE 1)

\* lines 378-383: the point of index i (from 0) with price p, as printed
point_of(i, p, step, mn, span, height) ==
    [x |-> fmt2(FMul(Frac(i, 1), step)),
     y |-> fmt2(FSub(Frac(height, 1),
                     FMul(FDiv(FSub(p, mn), span), Frac(height, 1))))]

\* lines 387-395: the colour from the relative change of the endpoints
color_of(first, last) ==
    LET change == IF first # Frac(0, 1) THEN FDiv(FSub(last, first), first)
                  ELSE Frac(0, 1)
    IN  IF FLt(Frac(0, 1), change) THEN UpColor
        ELSE IF FLt(change, Frac(0, 1)) THEN DownColor
        ELSE NeutralColor

Svg(kind, width, height, points, color) ==
    [kind |-> kind, width |-> width, height |-> height,
     points |-> points, color |-> color]

\* lines 368-403 for the non-empty list pts, mn and span taken before the
\* duplication of a single point
polyline_of(pts, drawn, width, height) ==
    Svg("polyline", width, height,
        [j \in 1..Len(drawn) |->
            point_of(j - 1, drawn[j], step_x(width, Len(drawn)),
                     min(pts), span_of(pts), height)],
        color_of(drawn[1], drawn[Len(drawn)]))

\* sparkline_svg_from_prices(prices, width, height, stroke)
sparkline_svg_from_prices(prices, width, height, stroke) ==
    IF prices = <<>>
    THEN [raised |-> FALSE, svg |-> Svg("rect", width, height, <<>>, "none")]
    ELSE IF to_pts(prices).exc # "none"
    THEN [raised |-> TRUE, svg |-> Svg("none", 0, 0, <<>>, "none")]
    ELSE IF to_pts(prices).val = <<>>
    THEN [raised |-> FALSE, svg |-> Svg("empty", width, height, <<>>, "none")]
    ELSE [raised |-> FALSE,
          svg |-> polyline_of(to_pts(prices).val,
                              duplicate_single(to_pts(prices).val), width, height)]

\* a call of the renderer
SparklineSvgFromPrices ==
    /\ call.op = "none"
    /\ \E prices \in SeqsUpTo(RenderValues, MaxPoints) :
       \E width \in Widths : \E height \in Heights : \E stroke \in Strokes :
       \E r \in {sparkline_svg_from_prices(prices, width, height, stroke)} :
          call' = [op |-> "sparkline_svg_from_prices", prices |-> prices,
                   width |-> width, height |-> height, stroke |-> stroke,
                   raised |-> r.raised, svg |-> r.svg]
    /\ UNCHANGED <<environ, now, _coingecko_map_cache, _coingecko_map_cached_at>>

\* the renderer, called on any series
InitRender == Init

NextRender ==
    \/ SparklineSvgFromPrices
    \/ Return

SpecRender == InitRender /\ [][NextRender]_vars

\* the map a rebuild leaves from a catalog
BuiltMap(items) == merge_overrides(index_catalog(items, EmptyMap))

\* a deployment with every provider key configured, or with none
FrameEnvironments ==
    {e \in Environments : e.FINNHUB_API_KEY = e.FINNHUB_KEY
                          /\ e.FINNHUB_KEY = e.CMC_API_KEY}

\* every operation but the CRYPTO path, in a process whose symbol map is
\* not built yet or was just built by an earlier CRYPTO call
InitFrame ==
    /\ environ \in FrameEnvironments
    /\ now = StartTime
    /\ \E built \in BOOLEAN :
          /\ _coingecko_map_cache =
                 IF built THEN BuiltMap(<<Coin("abc", "abc-coin")>>) ELSE EmptyMap
          /\ _coingecko_map_cached_at = IF built THEN Num(StartTime) ELSE None
    /\ call = NoCall

NextFrame ==
    \/ FetchCurrentStockPrices
    \/ FetchCurrentCryptoPrices
    \/ SparklineSvgFromPrices
    \/ Fetch24hSeriesStock
    \/ Fetch24hSeriesOther
    \/ AssetCatalog
    \/ Return

SpecFrame == InitFrame /\ [][NextFrame]_vars

-----------------------------------------------------------------------------
(* Concurrent callers of fetch_24h_series(symbol, 'CRYPTO'): request        *)
(* threads of the server sharing the two module globals.  A step is one     *)
(* access to a global or one answered request; what lies between two such   *)
(* points is local to the thread.  The code holds no lock.                  *)

Threads == {"t1", "t2"}
ThreadSymbols == {"BTC", " abc "}

\* a thread outside the call
IdleThread ==
    [pc |-> "idle", symbol |-> "", m |-> EmptyMap, items |-> <<>>,
     seen |-> EmptyMap, found |-> ""]

\* thread t continues at pc with the given locals
At(t, th) == call' = [call EXCEPT !.th[t] = th]

\* variant: the loop of lines 143-150 fills the shared map
shared_while_indexing_in_place(shared, local) == local

\* lines 143-153 write to the local m; the global is not touched
shared_while_indexing(shared, local) == shared

\* lines 167-169 and 249: the call starts on a non-empty symbol
ThreadCall(t) ==
    /\ call.th[t].pc = "idle"
    /\ \E symbol \in ThreadSymbols :
          At(t, [IdleThread EXCEPT !.pc = "ensure", !.symbol = strip(symbol)])
    /\ UNCHANGED <<environ, now, _coingecko_map_cache, _coingecko_map_cached_at>>

\* line 137: the freshness test; line 139: the catalog request is sent
ThreadCheckFresh(t) ==
    /\ call.th[t].pc = "ensure"
    /\ IF map_is_fresh
       THEN At(t, [call.th[t] EXCEPT !.pc = "lookup"])
       ELSE At(t, [call.th[t] EXCEPT !.pc = "inflight"])
    /\ UNCHANGED <<environ, now, _coingecko_map_cache, _coingecko_map_cached_at>>

\* lines 139-143: the catalog request is answered; a failure ends the rebuild
ThreadCatalogAnswer(t) ==
    /\ call.th[t].pc = "inflight"
    /\ \E resp \in CatalogResponses :
          LET r == get_json(resp)
          IN  IF r.exc # "none" \/ ~r.val.list
              THEN At(t, [call.th[t] EXCEPT !.pc = "lookup"])
              ELSE At(t, [call.th[t] EXCEPT !.pc = "index", !.m = EmptyMap,
                                            !.items = r.val.items])
    /\ UNCHANGED <<environ, now, _coingecko_map_cache, _coingecko_map_cached_at>>

\* lines 144-153: one catalog entry is indexed; after the last, the overrides
ThreadIndex(t) ==
    /\ call.th[t].pc = "index"
    /\ \E m \in {IF call.th[t].items = <<>> THEN merge_overrides(call.th[t].m)
                 ELSE index_catalog(<<Head(call.th[t].items)>>, call.th[t].m)} :
          /\ IF call.th[t].items = <<>>
             THEN At(t, [call.th[t] EXCEPT !.pc = "swap", !.m = m])
             ELSE At(t, [call.th[t] EXCEPT !.m = m,
                                           !.items = Tail(call.th[t].items)])
          /\ _coingecko_map_cache' = shared_while_indexing(_coingecko_map_cache, m)
    /\ UNCHANGED <<environ, now, _coingecko_map_cached_at>>

\* line 154: _coingecko_map_cache = m
ThreadSwap(t) ==
    /\ call.th[t].pc = "swap"
    /\ _coingecko_map_cache' = call.th[t].m
    /\ At(t, [call.th[t] EXCEPT !.pc = "stamp", !.m = EmptyMap])
    /\ UNCHANGED <<environ, now, _coingecko_map_cached_at>>

\* line 155: _coingecko_map_cached_at = time.time()
ThreadStamp(t) ==
    /\ call.th[t].pc = "stamp"
    /\ _coingecko_map_cached_at' = Num(now)
    /\ At(t, [call.th[t] EXCEPT !.pc = "lookup"])
    /\ UNCHANGED <<environ, now, _coingecko_map_cache>>

\* lines 250-258: the thread reads the shared map and looks its symbol up
ThreadLookup(t) ==
    /\ call.th[t].pc = "lookup"
    /\ IF needs_search(resolve_cid(_coingecko_map_cache, lower(call.th[t].symbol)))
       THEN At(t, [call.th[t] EXCEPT !.pc = "search", !.seen = _coingecko_map_cache])
       ELSE At(t, [call.th[t] EXCEPT !.pc = "fetch", !.seen = _coingecko_map_cache])
    /\ UNCHANGED <<environ, now, _coingecko_map_cache, _coingecko_map_cached_at>>

\* lines 259-284: the search is answered; without an id the call returns []
ThreadSearchAnswer(t) ==
    /\ call.th[t].pc = "search"
    /\ \E resp \in SearchResponses :
          IF search_id(resp, call.th[t].symbol) # ""
          THEN At(t, [call.th[t] EXCEPT !.pc = "store",
                                        !.found = search_id(resp, call.th[t].symbol)])
          ELSE At(t, IdleThread)
    /\ UNCHANGED <<environ, now, _coingecko_map_cache, _coingecko_map_cached_at>>

\* line 277: _coingecko_map_cache[symbol.lower()] = cid
ThreadStoreOnMiss(t) ==
    /\ call.th[t].pc = "store"
    /\ _coingecko_map_cache' =
           Store(_coingecko_map_cache, lower(call.th[t].symbol), call.th[t].found)
    /\ At(t, [call.th[t] EXCEPT !.pc = "fetch", !.found = ""])
    /\ UNCHANGED <<environ, now, _coingecko_map_cached_at>>

\* lines 295-333: the first market-chart attempt and, when it gives no
\* prices, the retry search; the call returns unless the search gives an id
ThreadFirstAttempt(t) ==
    /\ call.th[t].pc = "fetch"
    /\ \E chart1 \in ChartResponses :
       \E search2 \in IfIssued(attempt_series(try_fetch_for_cid(chart1)) = <<>>,
                               SearchResponses) :
          IF attempt_series(try_fetch_for_cid(chart1)) = <<>>
             /\ search_id(search2, call.th[t].symbol) # ""
          THEN At(t, [call.th[t] EXCEPT !.pc = "retry",
                          !.found = search_id(search2, call.th[t].symbol)])
          ELSE At(t, IdleThread)
    /\ UNCHANGED <<environ, now, _coingecko_map_cache, _coingecko_map_cached_at>>

\* lines 334-339: the second attempt; its id is stored when it gives prices
ThreadSecondAttempt(t) ==
    /\ call.th[t].pc = "retry"
    /\ \E chart2 \in ChartResponses :
          IF try_fetch_for_cid(chart2).exc = "none"
             /\ try_fetch_for_cid(chart2).val # <<>>
          THEN _coingecko_map_cache' =
                   Store(_coingecko_map_cache, lower(call.th[t].symbol),
                         call.th[t].found)
          ELSE UNCHANGED _coingecko_map_cache
    /\ At(t, IdleThread)
    /\ UNCHANGED <<environ, now, _coingecko_map_cached_at>>

\* time passes while the threads run
ThreadTick ==
    /\ now + TickStep <= StartTime + MaxTicks * TickStep
    /\ now' = now + TickStep
    /\ UNCHANGED <<environ, _coingecko_map_cache, _coingecko_map_cached_at, call>>

\* the process after import with its request threads idle; the CRYPTO path
\* reads no credential
InitThreads ==
    /\ environ = [FINNHUB_API_KEY |-> FALSE, FINNHUB_KEY |-> FALSE,
                  CMC_API_KEY |-> FALSE]
    /\ now = StartTime
    /\ _coingecko_map_cache = EmptyMap
    /\ _coingecko_map_cached_at = None
    /\ call = [op |-> "threads", th |-> [t \in Threads |-> IdleThread]]

NextThreads ==
    \/ ThreadTick
    \/ \E t \in Threads : ThreadCall(t)
    \/ \E t \in Threads : ThreadCheckFresh(t)
    \/ \E t \in Threads : ThreadCatalogAnswer(t)
    \/ \E t \in Threads : ThreadIndex(t)
    \/ \E t \in Threads : ThreadSwap(t)
    \/ \E t \in Threads : ThreadStamp(t)
    \/ \E t \in Threads : ThreadLookup(t)
    \/ \E t \in Threads : ThreadSearchAnswer(t)
    \/ \E t \in Threads : ThreadStoreOnMiss(t)
    \/ \E t \in Threads : ThreadFirstAttempt(t)
    \/ \E t \in Threads : ThreadSecondAttempt(t)

SpecThreads == InitThreads /\ [][NextThreads]_vars

-----------------------------------------------------------------------------
(* Properties of the stock cascade of asset_catalog (SpecPage).            *)

StageOrder == <<"candle", "history", "quote">>

Issued(ep) == Requests(call.reqs, ep) # {}

\* C1: for a STOCK asset the stages are consulted in the order candle API,
\* persisted history, quote interpolation; a stage is consulted only if every
\* earlier stage gave an empty series, no stage is consulted after a non-empty
\* one, the history stage gives the persisted rows, and the first non-empty
\* series is handed unchanged to the sparkline renderer (none is drawn when
\* every stage is empty).
C1_CascadeOrder ==
    call.op = "asset_catalog" =>
        LET st == call.stages
            n == Len(call.stages)
        IN  /\ n \in 1..3
            /\ \A i \in 1..n : st[i].stage = StageOrder[i]
            /\ \A i \in 1..(n - 1) : st[i].series = <<>>
            /\ n < 3 => st[n].series # <<>>
            /\ (n >= 2 /\ ~call.db.error) =>
                   st[2].series = [j \in 1..Len(call.db.rows) |->
                                      Frac(call.db.rows[j].v, 1)]
            /\ call.sparkline.drawn = (st[n].series # <<>>)
            /\ call.sparkline.prices = st[n].series

\* the persisted history is used although a quote with a previous close exists
C1_Witness ==
    /\ call.op = "asset_catalog"
    /\ Len(call.stages) = 2
    /\ call.db.rows # <<>>
    /\ call.pdata.present /\ call.pdata.prev_close = Num(100)
    /\ call.sparkline.drawn
    /\ call.sparkline.prices = call.stages[2].series

\* the candle call was denied and the history of the last 24 hours is empty
DeniedAndNoHistory ==
    /\ call.op = "asset_catalog"
    /\ Issued("candle") /\ call.candle.net = "ok" /\ call.candle.status = 403
    /\ ~call.db.error /\ call.db.rows = <<>>

\* C3 as stated: candle denied, no persisted history, a quote without a
\* previous close: the series is empty and no sparkline is drawn.
C3_EmptyWithoutPrevClose ==
    (DeniedAndNoHistory /\ pdata_prev_close(call.pdata) = None) =>
        (call.series = <<>> /\ ~call.sparkline.drawn)

\* C3, amended: candle denied, no persisted history and no current price
\* (the symbol has no quote): the series is empty and no sparkline is drawn.
C3_EmptyWithoutPrice ==
    (DeniedAndNoHistory /\ pdata_price(call.pdata) = None) =>
        (call.series = <<>> /\ ~call.sparkline.drawn)

\* the quote request was made and gave no price
C3_Witness ==
    /\ DeniedAndNoHistory
    /\ Issued("quote") /\ ~call.pdata.present
    /\ Len(call.stages) = 3
    /\ call.series = <<>> /\ ~call.sparkline.drawn

\* the quote stage was consulted with a current price
QuoteStageWithPrice ==
    /\ call.op = "asset_catalog"
    /\ Len(call.stages) = 3
    /\ call.pdata.present

\* C4: with a current price and a non-zero previous close the quote stage
\* gives exactly 24 points, the first the previous close, the last the current
\* price, point i = prev + (current - prev) * i / 23, monotone between them.
C4_Interpolation ==
    (QuoteStageWithPrice /\ call.pdata.prev_close.k = "num"
                         /\ call.pdata.prev_close.v # 0) =>
        LET s == call.stages[3].series
            prev == Frac(call.pdata.prev_close.v, 1)
            cur == call.pdata.price
        IN  /\ Len(s) = 24
            /\ s[1] = prev
            /\ s[24] = cur
            /\ \A i \in 0..23 :
                   s[i + 1] = FAdd(prev, FDiv(FMul(FSub(cur, prev), Frac(i, 1)),
                                              Frac(23, 1)))
            /\ \A i \in 1..23 :
                   IF FLe(prev, cur) THEN FLe(s[i], s[i + 1]) ELSE FLe(s[i + 1], s[i])
            /\ call.sparkline.prices = s

\* previous close 100, current price 110
C4_Witness ==
    /\ QuoteStageWithPrice
    /\ call.pdata.prev_close = Num(100) /\ call.pdata.price = Frac(110, 1)
    /\ Len(call.series) = 24
    /\ call.series[1] = Frac(100, 1) /\ call.series[24] = Frac(110, 1)
    /\ FLt(call.series[1], call.series[2])

\* C5: with a current price and an absent or zero previous close the quote
\* stage gives exactly 24 copies of the current price.
C5_SinglePrice ==
    (QuoteStageWithPrice /\ InNoneOrZero(call.pdata.prev_close)) =>
        /\ Len(call.stages[3].series) = 24
        /\ \A i \in 1..24 : call.stages[3].series[i] = call.pdata.price
        /\ call.sparkline.prices = call.stages[3].series

\* a zero previous close
C5_Witness ==
    /\ QuoteStageWithPrice
    /\ call.pdata.prev_close = Num(0) /\ call.pdata.price = Frac(110, 1)
    /\ Len(call.series) = 24 /\ call.series[1] = Frac(110, 1)

-----------------------------------------------------------------------------
(* Properties of the quote fetchers (SpecPage).                            *)

\* the quote request was answered with a body that holds a numeric price
QuoteSucceeded(resp) ==
    /\ resp.net = "ok" /\ resp.status \in 200..299 /\ resp.parses
    /\ resp.body.dict /\ resp.body.c.k = "num"

\* the non-empty symbols of the argument, as the set iterated by the loop
Asked(symbols) == Range(symbols) \ {""}

\* C6: fetch_current_stock_prices never raises and issues one quote request
\* per symbol; a symbol whose request succeeded is in the mapping whatever
\* the other requests did, and a symbol is left out only when no request for
\* it succeeded.
C6_PerSymbolIsolation ==
    call.op = "fetch_current_stock_prices" =>
        /\ ~call.raised
        /\ Len(call.reqs) = IF finnhub_api_key THEN Cardinality(Asked(call.symbols))
                            ELSE 0
        /\ finnhub_api_key => Range(call.reqs) = {upper(x) : x \in Asked(call.symbols)}
        /\ \A i \in 1..Len(call.reqs) :
               QuoteSucceeded(call.resps[i]) => call.reqs[i] \in DOMAIN call.ret
        /\ \A x \in DOMAIN call.ret :
               \E i \in 1..Len(call.reqs) :
                   call.reqs[i] = x /\ QuoteSucceeded(call.resps[i])

\* one symbol fails upstream with HTTP 500, its sibling succeeds and is returned
C6_Witness ==
    /\ call.op = "fetch_current_stock_prices"
    /\ Len(call.reqs) = 2
    /\ call.reqs[1] # call.reqs[2]
    /\ call.resps[1].status = 500
    /\ QuoteSucceeded(call.resps[2])
    /\ DOMAIN call.ret = {call.reqs[2]}

\* C7: every entry of the mapping returned by fetch_current_stock_prices has
\* a price strictly greater than zero.
C7_PositivePrices ==
    call.op = "fetch_current_stock_prices" =>
        \A x \in DOMAIN call.ret : FLt(Frac(0, 1), call.ret[x].price)

\* the one request of fetch_current_crypto_prices failed: transport, status,
\* unparseable body, a body that is no object, or a requested item that is none
CmcFailed(resp, syms) ==
    \/ resp.net # "ok" \/ resp.status >= 400 \/ ~resp.parses \/ ~resp.body.dict
    \/ \E i \in 1..Len(syms) : resp.body.data[syms[i]] = "notdict"

\* C8: fetch_current_crypto_prices never raises; without a credential it
\* returns an empty mapping and issues no request; a failed request gives an
\* empty mapping; otherwise the mapping holds exactly the requested symbols
\* the response has an entry for.
C8_CryptoBatch ==
    call.op = "fetch_current_crypto_prices" =>
        /\ ~call.raised
        /\ ~cmc_api_key => (DOMAIN call.ret = {} /\ call.reqs = <<>>)
        /\ Len(call.reqs) <= 1
        /\ (cmc_api_key /\ Asked(call.symbols) # {}) =>
               /\ Len(call.reqs) = 1
               /\ Range(call.reqs[1]) = {upper(x) : x \in Asked(call.symbols)}
               /\ IF CmcFailed(call.resp, call.reqs[1])
                  THEN DOMAIN call.ret = {}
                  ELSE DOMAIN call.ret =
                           {x \in Range(call.reqs[1]) : call.resp.body.data[x] # "absent"}

\* two symbols requested, one absent from the response, the other returned
C8_Witness ==
    /\ call.op = "fetch_current_crypto_prices"
    /\ Len(call.reqs) = 1
    /\ Range(call.reqs[1]) = {"BTC", "ABC"}
    /\ ~CmcFailed(call.resp, call.reqs[1])
    /\ call.resp.body.data["ABC"] = "absent"
    /\ DOMAIN call.ret = {"BTC"}

\* C19: both quote fetchers accept symbols in any letter case: every request
\* and every key of the returned mapping is the upper-cased form of a symbol
\* passed, and a symbol passed in lower or mixed case, for which the provider
\* gave a quote, is found under its upper-cased form.
C19_UpperCaseKeys ==
    /\ call.op = "fetch_current_stock_prices" =>
           /\ \A i \in 1..Len(call.reqs) : upper(call.reqs[i]) = call.reqs[i]
           /\ \A k \in DOMAIN call.ret :
                  upper(k) = k /\ \E x \in Asked(call.symbols) : k = upper(x)
           /\ \A x \in Asked(call.symbols) :
                  (\E i \in 1..Len(call.reqs) :
                       call.reqs[i] = upper(x) /\ QuoteSucceeded(call.resps[i]))
                  => upper(x) \in DOMAIN call.ret
    /\ (call.op = "fetch_current_crypto_prices" /\ call.reqs # <<>>) =>
           /\ \A i \in 1..Len(call.reqs[1]) :
                  upper(call.reqs[1][i]) = call.reqs[1][i]
           /\ \A k \in DOMAIN call.ret :
                  upper(k) = k /\ \E x \in Asked(call.symbols) : k = upper(x)
           /\ ~CmcFailed(call.resp, call.reqs[1]) =>
                  \A x \in Asked(call.symbols) :
                      call.resp.body.data[upper(x)] = "usd"
                      => upper(x) \in DOMAIN call.ret

\* "aapl" is requested as AAPL and its quote returned under AAPL
C19_Witness ==
    /\ call.op = "fetch_current_stock_prices"
    /\ call.symbols = <<"aapl">>
    /\ call.reqs = <<"AAPL">>
    /\ DOMAIN call.ret = {"AAPL"}

\* the percent change the claim gives for current price c and previous close pc
ExpectedChange(c, pc) ==
    IF pc.k = "num" /\ pc.v # 0
    THEN Frac((c - pc.v) * 100, pc.v)
    ELSE None

\* C20: the percent change of a returned quote is
\* (current - previousClose) / previousClose * 100 when the previous close is
\* a non-zero number and absent otherwise; a zero or absent previous close
\* neither raises nor removes the symbol from the result.
C20_PercentChange ==
    call.op = "fetch_current_stock_prices" =>
        /\ ~call.raised
        /\ \A k \in DOMAIN call.ret :
               \E i \in 1..Len(call.reqs) :
                   /\ call.reqs[i] = k /\ QuoteSucceeded(call.resps[i])
                   /\ call.ret[k].price = Frac(call.resps[i].body.c.v, 1)
                   /\ call.ret[k].prev_close = call.resps[i].body.pc
                   /\ call.ret[k].percent_change =
                          ExpectedChange(call.resps[i].body.c.v, call.resps[i].body.pc)
        /\ \A i \in 1..Len(call.reqs) :
               (QuoteSucceeded(call.resps[i]) /\ InNoneOrZero(call.resps[i].body.pc))
               => call.reqs[i] \in DOMAIN call.ret

\* 110 after 100 is a change of 10 percent; the sibling quote with a zero
\* previous close is returned without a percent change
C20_Witness ==
    /\ call.op = "fetch_current_stock_prices"
    /\ Len(call.reqs) = 2 /\ call.reqs[1] # call.reqs[2]
    /\ call.resps[1].body = QuoteBody(Num(110), Num(100))
    /\ call.resps[2].body = QuoteBody(Num(110), Num(0))
    /\ DOMAIN call.ret = {call.reqs[1], call.reqs[2]}
    /\ call.ret[call.reqs[1]].percent_change = Frac(10, 1)
    /\ call.ret[call.reqs[2]].percent_change = None

\* no element occurs twice in the sequence
NoRepeat(seq) == \A i, j \in DOMAIN seq : seq[i] = seq[j] => i = j

\* C27: one call of fetch_current_stock_prices requests each upper-cased
\* symbol at most once, also when the input holds a symbol twice or in two
\* letter cases, and the symbol list fetch_current_crypto_prices sends holds
\* no symbol twice.
C27_EachSymbolOnce ==
    /\ call.op = "fetch_current_stock_prices" => NoRepeat(call.reqs)
    /\ (call.op = "fetch_current_crypto_prices" /\ call.reqs # <<>>) =>
           NoRepeat(call.reqs[1])

-----------------------------------------------------------------------------
(* Properties of fetch_24h_series and the symbol map (Spec).               *)

SeriesCall == call.op = "fetch_24h_series"
CryptoCall == call.op = "fetch_24h_series" /\ call.asset_type = "CRYPTO"

\* the identifier of the first market-chart request of the call
FirstChartId ==
    call.reqs[CHOOSE i \in Requests(call.reqs, "market_chart") :
                  \A j \in Requests(call.reqs, "market_chart") : i <= j].arg

\* C2: fetch_24h_series never raises, for every symbol, asset type and outcome
\* of its requests, and returns the empty list whenever no request obtained a
\* non-empty list of prices.
C2_NeverRaises ==
    SeriesCall => (~call.raised /\ (~call.obtained => call.ret = <<>>))

\* a CRYPTO call whose catalog, search and market-chart requests all came to
\* nothing
C2_Witness ==
    /\ CryptoCall
    /\ ~call.rebuilt
    /\ Cardinality(Requests(call.reqs, "coins_list")) = 1
    /\ Cardinality(Requests(call.reqs, "market_chart")) = 2
    /\ ~call.obtained /\ ~call.raised
    /\ call.ret = <<>>

\* C9: for a symbol of the manual override table, in any letter case, the
\* first market-chart request of a CRYPTO call uses the override identifier,
\* whatever the symbol map holds.
C9_OverrideWins ==
    (CryptoCall /\ lower(strip(call.symbol)) \in DOMAIN _COINGECKO_MANUAL_OVERRIDES) =>
        /\ Issued("market_chart")
        /\ FirstChartId = _COINGECKO_MANUAL_OVERRIDES[lower(strip(call.symbol))]

\* "BTC" is fetched as bitcoin while the map, not rebuilt by the call, holds
\* another identifier under "btc"
C9_Witness ==
    /\ CryptoCall /\ call.symbol = "BTC"
    /\ ~call.rebuilt /\ ~call.stored_on_retry
    /\ "btc" \in DOMAIN _coingecko_map_cache
    /\ _coingecko_map_cache["btc"] = "bitcoin-cash"
    /\ Issued("market_chart") /\ FirstChartId = "bitcoin"

\* the step is a call that rebuilt the map
Rebuilds == call'.op = "fetch_24h_series" /\ call'.rebuilt

\* the step is a call that stored the identifier of its second attempt under k
StoresOnRetry(k) ==
    /\ call'.op = "fetch_24h_series" /\ call'.stored_on_retry
    /\ k = lower(strip(call'.symbol))

\* C10 as stated: a key of the symbol map keeps its identifier in every step
\* that is not a full rebuild.
C10_KeyStableUntilRebuild ==
    [][\A k \in DOMAIN _coingecko_map_cache :
           Rebuilds \/ (/\ k \in DOMAIN _coingecko_map_cache'
                        /\ _coingecko_map_cache'[k] = _coingecko_map_cache[k])]_vars

\* C10, amended: a key of the symbol map keeps its identifier in every step
\* that is neither a full rebuild nor a call storing, under that key, the
\* identifier of a second attempt that returned prices.
C10_KeyStableButRetry ==
    [][\A k \in DOMAIN _coingecko_map_cache :
           \/ Rebuilds
           \/ StoresOnRetry(k)
           \/ (/\ k \in DOMAIN _coingecko_map_cache'
               /\ _coingecko_map_cache'[k] = _coingecko_map_cache[k])]_vars

\* a call that did not rebuild the map looked up abc-coin and left abc-token
C10_Witness ==
    /\ CryptoCall /\ call.symbol = " abc "
    /\ ~call.rebuilt /\ ~call.stored_on_miss /\ call.stored_on_retry
    /\ FirstChartId = "abc-coin"
    /\ _coingecko_map_cache["abc"] = "abc-token"

\* the catalog request failed: transport, status, unparseable or non-list body
CatalogFailed(resp) ==
    resp.net # "ok" \/ resp.status >= 400 \/ ~resp.parses \/ ~resp.body.list

\* the key under which a CRYPTO call stores a searched identifier
CallKey == lower(strip(call'.symbol))

\* C11: a rebuild whose catalog request fails leaves the symbol map and its
\* timestamp as they were (the call may still store a searched identifier
\* under its own key), and a call requests the catalog at most once.
C11_FailedRebuildKeepsMap ==
    [][/\ \A resp \in CatalogResponses :
              CatalogFailed(resp) =>
                  /\ _ensure_coingecko_map(resp).cache = _coingecko_map_cache
                  /\ _ensure_coingecko_map(resp).cached_at = _coingecko_map_cached_at
       /\ call'.op = "fetch_24h_series" =>
              Cardinality(Requests(call'.reqs, "coins_list")) <= 1
       /\ (/\ call'.op = "fetch_24h_series" /\ call'.asset_type = "CRYPTO"
           /\ Requests(call'.reqs, "coins_list") # {}
           /\ CatalogFailed(call'.catalog)) =>
              /\ ~call'.rebuilt
              /\ _coingecko_map_cached_at' = _coingecko_map_cached_at
              /\ \A k \in DOMAIN _coingecko_map_cache \ {CallKey} :
                     /\ k \in DOMAIN _coingecko_map_cache'
                     /\ _coingecko_map_cache'[k] = _coingecko_map_cache[k]
              /\ DOMAIN _coingecko_map_cache' \subseteq
                     DOMAIN _coingecko_map_cache \cup {CallKey}
              /\ (~call'.stored_on_miss /\ ~call'.stored_on_retry) =>
                     _coingecko_map_cache' = _coingecko_map_cache]_vars

\* an expired map survives a rebuild whose catalog request timed out
C11_Witness ==
    /\ CryptoCall
    /\ Cardinality(Requests(call.reqs, "coins_list")) = 1
    /\ call.catalog.net = "Timeout"
    /\ _coingecko_map_cached_at.k = "num"
    /\ now - _coingecko_map_cached_at.v >= TTL
    /\ "abc" \in DOMAIN _coingecko_map_cache
    /\ _coingecko_map_cache["abc"] = "abc-coin"

\* C18: every series returned by fetch_24h_series, STOCK or CRYPTO, holds
\* only non-negative prices, whatever the provider answered.
C18_NonNegativeSeries ==
    SeriesCall => \A i \in 1..Len(call.ret) : FLe(Frac(0, 1), call.ret[i])

\* the step is a CRYPTO call on a symbol that is not blank
CryptoStep ==
    /\ call'.op = "fetch_24h_series" /\ call'.asset_type = "CRYPTO"
    /\ strip(call'.symbol) # ""

\* the lower-cased symbols of the catalog the call received
CatalogKeys ==
    {lower(call'.catalog.body.items[i].symbol) :
        i \in 1..Len(call'.catalog.body.items)}

\* C21: a CRYPTO call requests the catalog exactly when the map is empty, was
\* never built, or was built at least 3600 s ago; a successful rebuild stamps
\* the current time and replaces the map wholesale: apart from the entry the
\* call itself stores for its symbol, only catalog and override keys remain.
C21_RebuildWhenStale ==
    [][CryptoStep =>
          /\ (Requests(call'.reqs, "coins_list") # {}) <=>
                 \/ DOMAIN _coingecko_map_cache = {}
                 \/ _coingecko_map_cached_at = None
                 \/ now - _coingecko_map_cached_at.v >= 3600
          /\ call'.rebuilt <=>
                 (Requests(call'.reqs, "coins_list") # {} /\ ~CatalogFailed(call'.catalog))
          /\ call'.rebuilt =>
                 /\ _coingecko_map_cached_at' = Num(now)
                 /\ \A k \in DOMAIN _coingecko_map_cache' \ {CallKey} :
                        k \in DOMAIN _COINGECKO_MANUAL_OVERRIDES \cup CatalogKeys
                 /\ \A k \in DOMAIN _COINGECKO_MANUAL_OVERRIDES \cup (CatalogKeys \ {""}) :
                        k \in DOMAIN _coingecko_map_cache']_vars

\* the map is rebuilt one hour after the start from a catalog that does not
\* list abc: whatever was stored under abc is gone
C21_Witness ==
    /\ CryptoCall /\ call.symbol = "eth"
    /\ call.rebuilt
    /\ now = StartTime + 2 * TickStep
    /\ _coingecko_map_cached_at = Num(now)
    /\ DOMAIN _coingecko_map_cache = DOMAIN _COINGECKO_MANUAL_OVERRIDES

\* the positions of the requests to endpoint ep among the requests of the step
Sent(ep) == Requests(call'.reqs, ep)

\* the position of the first market-chart request of the step
FirstChart == CHOOSE i \in Sent("market_chart") : \A j \in Sent("market_chart") : i <= j

\* the answer gave a non-empty list of numeric prices
GavePrices(resp) ==
    HasPrices(resp) /\ \A i \in 1..Len(resp.body.prices) : resp.body.prices[i].k = "num"

\* the entry of the call's symbol when the first market-chart request is sent:
\* the searched identifier stored on a miss, else the entry of the ensured map
EntryBeforeRetry ==
    IF call'.stored_on_miss THEN call'.reqs[FirstChart].arg
    ELSE Get(_ensure_coingecko_map(call'.catalog).cache, CallKey)

\* C22: when the first market-chart request gives no prices, the search
\* endpoint is queried once more and the market-chart request is repeated
\* once with the identifier found; the entry of the symbol becomes that
\* identifier if the second answer holds a non-empty price list and stays as
\* it was otherwise.  When the first request gives prices nothing follows it.
C22_RetryOnce ==
    [][(CryptoStep /\ Sent("market_chart") # {}) =>
          LET after == {i \in DOMAIN call'.reqs : i > FirstChart}
              id2 == search_id(call'.search2, strip(call'.symbol))
          IN  IF GavePrices(call'.chart1)
              THEN after = {} /\ call'.ret # <<>>
                   /\ Get(_coingecko_map_cache', CallKey) = EntryBeforeRetry
              ELSE /\ Cardinality(after \cap Sent("search")) = 1
                   /\ FirstChart + 1 \in Sent("search")
                   /\ call'.reqs[FirstChart + 1].arg = strip(call'.symbol)
                   /\ IF id2 = ""
                      THEN /\ Cardinality(after) = 1
                           /\ Get(_coingecko_map_cache', CallKey) = EntryBeforeRetry
                      ELSE /\ Cardinality(after) = 2
                           /\ call'.reqs[FirstChart + 2] = Request("market_chart", id2)
                           /\ Get(_coingecko_map_cache', CallKey) =
                                  IF HasPrices(call'.chart2) THEN id2
                                  ELSE EntryBeforeRetry]_vars

\* the first attempt for abc-coin timed out, the search gave abc-token, and
\* the second attempt was empty: the entry of abc is still abc-coin
C22_Witness ==
    /\ CryptoCall /\ call.symbol = " abc "
    /\ call.chart1.net = "Timeout"
    /\ Cardinality(Requests(call.reqs, "market_chart")) = 2
    /\ call.reqs[Len(call.reqs)] = Request("market_chart", "abc-token")
    /\ call.chart2.body = ChartBody(<<>>)
    /\ call.ret = <<>>
    /\ _coingecko_map_cache["abc"] = "abc-coin"

\* the candidates a search answer returned, none when the request failed
Candidates(resp) ==
    IF resp.net = "ok" /\ resp.status < 400 /\ resp.parses /\ resp.body.dict
    THEN resp.body.coins
    ELSE <<>>

\* the identifier of the first candidate whose symbol is q in any letter case,
\* else of the first candidate
Chosen(coins, q) ==
    LET exact == {i \in 1..Len(coins) : lower(coins[i].symbol) = lower(q)}
    IN  IF exact # {}
        THEN coins[CHOOSE i \in exact : \A j \in exact : i <= j].id
        ELSE coins[1].id

\* the symbol map once the call has ensured it
Ensured == _ensure_coingecko_map(call'.catalog).cache

\* the step is a CRYPTO call whose symbol has no entry in the ensured map and
\* no manual override
Missed ==
    /\ CryptoStep
    /\ CallKey \notin DOMAIN _COINGECKO_MANUAL_OVERRIDES
    /\ Get(Ensured, CallKey) = ""

\* C24: a symbol with neither a map entry nor an override is searched for, right
\* after the catalog request if there was one.  With candidates, the identifier
\* of the first one whose symbol equals the query in any letter case, else of
\* the first one, is stored under the lower-cased symbol and requested first
\* (only a second attempt that returns prices replaces the entry afterwards).
\* Without candidates or on a failed search the series is empty, no chart is
\* requested and the map is the ensured map.
C24_SearchOnMiss ==
    [][Missed =>
          LET coins == Candidates(call'.search1)
              first == Cardinality(Sent("coins_list")) + 1
          IN  /\ Sent("search") # {}
              /\ call'.reqs[first] = Request("search", strip(call'.symbol))
              /\ IF coins = <<>>
                 THEN /\ call'.ret = <<>>
                      /\ Len(call'.reqs) = first
                      /\ ~call'.stored_on_miss
                      /\ _coingecko_map_cache' = Ensured
                 ELSE /\ call'.stored_on_miss
                      /\ call'.reqs[first + 1] =
                             Request("market_chart", Chosen(coins, strip(call'.symbol)))
                      /\ _coingecko_map_cache' =
                             Store(Ensured, CallKey,
                                   IF call'.stored_on_retry
                                   THEN call'.reqs[Len(call'.reqs)].arg
                                   ELSE Chosen(coins, strip(call'.symbol)))]_vars

\* the catalog timed out on an empty map, the search for abc returned BCH and
\* ABC, and the identifier of ABC, the second candidate, was stored and charted
C24_Witness ==
    /\ CryptoCall /\ call.symbol = " abc "
    /\ call.catalog.net = "Timeout"
    /\ Len(call.reqs) >= 3
    /\ call.reqs[1].ep = "coins_list"
    /\ call.reqs[2] = Request("search", "abc")
    /\ call.search1.body.coins =
           <<Coin("BCH", "bitcoin-cash"), Coin("ABC", "abc-token")>>
    /\ call.reqs[3] = Request("market_chart", "abc-token")
    /\ call.stored_on_miss
    /\ _coingecko_map_cache["abc"] = "abc-token"

\* the search for abc returned BCH alone: the first candidate was taken
C24_FirstCandidate ==
    /\ CryptoCall /\ call.symbol = " abc " /\ call.stored_on_miss
    /\ call.search1.body.coins = <<Coin("BCH", "bitcoin-cash")>>
    /\ FirstChartId = "bitcoin-cash"

\* a STOCK call that sent its candle request
CandleCall ==
    /\ call.op = "fetch_24h_series" /\ call.asset_type = "STOCK"
    /\ call.reqs # <<>>

\* the answer is a parsed object flagged 'ok'
FlaggedOk(resp) ==
    /\ resp.net = "ok" /\ resp.status < 400 /\ resp.parses
    /\ resp.body.dict /\ resp.body.s = "ok"

\* the positions of the closes that are numbers other than zero
Kept(closes) == {i \in 1..Len(closes) : closes[i].k = "num" /\ closes[i].v # 0}

\* the j-th of these positions
KeptAt(closes, j) ==
    CHOOSE i \in Kept(closes) : Cardinality({k \in Kept(closes) : k <= i}) = j

\* C23: a STOCK call returns prices only from a candle answer flagged 'ok':
\* its closes in their order, without the null and the zero closes (and
\* without closes that are no numbers); any other answer gives the empty series.
C23_OkClosesOnly ==
    CandleCall =>
        IF FlaggedOk(call.candle)
        THEN /\ Len(call.ret) = Cardinality(Kept(call.candle.body.c))
             /\ \A j \in 1..Len(call.ret) :
                    call.ret[j] =
                        Frac(call.candle.body.c[KeptAt(call.candle.body.c, j)].v, 1)
        ELSE call.ret = <<>>

\* closes 0, 5: the zero is dropped
C23_Witness ==
    /\ CandleCall /\ FlaggedOk(call.candle)
    /\ call.candle.body.c = <<Num(0), Num(5)>>
    /\ call.ret = <<Frac(5, 1)>>

\* C26: a candle request answered with status 403 is recognised as access
\* denied: the call logs a warning, not an error, and returns the empty series.
C26_AccessDenied ==
    (CandleCall /\ call.candle.net = "ok" /\ call.candle.status = 403) =>
        /\ call.log = "warning"
        /\ call.ret = <<>> /\ ~call.raised

\* C28: whatever calls were made and whatever the providers answered, every
\* key of the manual override table that is in the symbol map is stored with
\* its override identifier.
C28_OverridesStored ==
    \A k \in DOMAIN _coingecko_map_cache \cap DOMAIN _COINGECKO_MANUAL_OVERRIDES :
        _coingecko_map_cache[k] = _COINGECKO_MANUAL_OVERRIDES[k]

\* C29: whenever the timestamp is set the symbol map holds every key of the
\* manual override table; the timestamp changes only in a call whose catalog
\* request succeeded, to the current time; a call whose catalog request
\* failed leaves the timestamp as it was and the map stale, so that the next
\* CRYPTO call requests the catalog again.
C29_StampedMapIsBuilt ==
    [][/\ _coingecko_map_cached_at'.k = "num" =>
             DOMAIN _COINGECKO_MANUAL_OVERRIDES \subseteq DOMAIN _coingecko_map_cache'
       /\ _coingecko_map_cached_at' # _coingecko_map_cached_at =>
             /\ CryptoStep /\ Sent("coins_list") # {}
             /\ ~CatalogFailed(call'.catalog)
             /\ _coingecko_map_cached_at' = Num(now)
       /\ (CryptoStep /\ Sent("coins_list") # {} /\ CatalogFailed(call'.catalog)) =>
             /\ _coingecko_map_cached_at' = _coingecko_map_cached_at
             /\ ~map_is_fresh']_vars

\* a rebuild of an expired map failed: the old timestamp and the override keys
\* are still there
C29_Witness ==
    /\ CryptoCall /\ Issued("coins_list") /\ CatalogFailed(call.catalog)
    /\ _coingecko_map_cached_at = Num(StartTime)
    /\ now - StartTime >= TTL
    /\ DOMAIN _COINGECKO_MANUAL_OVERRIDES \subseteq DOMAIN _coingecko_map_cache

\* the number of requests of the call to endpoint ep
Count(ep) == Cardinality(Requests(call.reqs, ep))

\* C30: a call of fetch_24h_series ends after a bounded number of requests,
\* whatever the providers answer: a STOCK call sends at most one candle
\* request and nothing else, a CRYPTO call at most one catalog request, two
\* search requests and two market-chart requests and nothing else, and any
\* other asset type sends none.
C30_BoundedRequests ==
    SeriesCall =>
        IF call.asset_type = "STOCK"
        THEN Len(call.reqs) <= 1 /\ Count("candle") = Len(call.reqs)
        ELSE IF call.asset_type = "CRYPTO"
        THEN /\ Count("coins_list") <= 1
             /\ Count("search") <= 2
             /\ Count("market_chart") <= 2
             /\ Len(call.reqs) =
                    Count("coins_list") + Count("search") + Count("market_chart")
        ELSE call.reqs = <<>>

\* a CRYPTO call that sent all five requests: catalog, search, chart, search,
\* chart
C30_Witness ==
    /\ CryptoCall
    /\ Len(call.reqs) = 5
    /\ Count("coins_list") = 1 /\ Count("search") = 2 /\ Count("market_chart") = 2

-----------------------------------------------------------------------------
(* Properties of the operations outside the CRYPTO path (SpecFrame).       *)

\* the symbols of a list that are not empty
Given(symbols) == {symbols[i] : i \in 1..Len(symbols)} \ {""}

\* C25: no operation outside the CRYPTO path of fetch_24h_series changes the
\* symbol map or its timestamp, and the quote fetchers hold nothing between
\* calls: with a key, each call of fetch_current_stock_prices sends one request
\* per symbol given and each call of fetch_current_crypto_prices with a symbol
\* sends its one request, whatever was fetched before.
C25_ResolverOwnsMap ==
    [][/\ UNCHANGED <<_coingecko_map_cache, _coingecko_map_cached_at>>
       /\ call'.op = "fetch_current_stock_prices" =>
             Len(call'.reqs) = IF finnhub_api_key
                               THEN Cardinality(Given(call'.symbols)) ELSE 0
       /\ call'.op = "fetch_current_crypto_prices" =>
             Len(call'.reqs) = IF cmc_api_key /\ Given(call'.symbols) # {}
                               THEN 1 ELSE 0]_vars

\* a quote was fetched for AAPL in a process whose symbol map is built
C25_Witness ==
    /\ call.op = "fetch_current_stock_prices"
    /\ call.symbols = <<"AAPL">> /\ Len(call.reqs) = 1
    /\ _coingecko_map_cache = BuiltMap(<<Coin("abc", "abc-coin")>>)
    /\ _coingecko_map_cached_at = Num(StartTime)

-----------------------------------------------------------------------------
(* Properties of concurrent callers (SpecThreads).                         *)

\* the maps a rebuild can install, and the map of a fresh process
CompleteMaps ==
    {EmptyMap} \cup
    {merge_overrides(index_catalog(resp.body.items, EmptyMap)) :
        resp \in {x \in CatalogResponses : ~CatalogFailed(x)}}

\* the identifiers a search can return
SearchIds ==
    UNION {{resp.body.coins[i].id : i \in 1..Len(resp.body.coins)} :
              resp \in {x \in SearchResponses : x.net = "ok" /\ x.body.dict}}

\* m is a map installed whole, changed at most by stored search results
WholeMap(m) ==
    \E M \in CompleteMaps :
        /\ DOMAIN M \subseteq DOMAIN m
        /\ \A k \in DOMAIN m :
               (k \in DOMAIN M /\ m[k] = M[k]) \/ m[k] \in SearchIds

\* the step is line 154 of a thread: a finished map is swapped in
SwapStep ==
    \E t \in Threads :
        /\ call.th[t].pc = "swap" /\ call'.th[t].pc = "stamp"
        /\ call.th[t].m \in CompleteMaps
        /\ _coingecko_map_cache' = call.th[t].m

\* the step is line 277 or 338 of a thread: one entry is stored under its symbol
StoreStep ==
    \E t \in Threads :
        /\ call.th[t].pc \in {"store", "retry"}
        /\ _coingecko_map_cache' =
               Store(_coingecko_map_cache, lower(call.th[t].symbol), call.th[t].found)

\* C12 as stated: every map a reader observes was installed whole by a
\* rebuild (or is the map of a fresh process), and the shared map changes
\* only by the swap that ends a rebuild, never in place.
C12_OnlySwapped ==
    [][/\ \A t \in Threads : call'.th[t].seen \in CompleteMaps
       /\ _coingecko_map_cache' # _coingecko_map_cache => SwapStep]_vars

\* C12, amended: a rebuild fills a new map and swaps it in, so no reader
\* observes a partially built map; the shared map changes only by that swap
\* and by the stores of one searched identifier under the symbol of a call,
\* and a reader observes a map installed whole, changed at most by such stores.
C12_NeverPartial ==
    [][/\ \A t \in Threads : WholeMap(call'.th[t].seen)
       /\ _coingecko_map_cache' # _coingecko_map_cache => (SwapStep \/ StoreStep)]_vars

\* one thread is in the middle of its rebuild, its new map half filled, while
\* the other has read the complete map that it had swapped in itself
C12_Witness ==
    /\ call.op = "threads"
    /\ call.th["t1"].pc = "index"
    /\ call.th["t1"].m # EmptyMap /\ call.th["t1"].items # <<>>
    /\ call.th["t2"].pc = "fetch"
    /\ call.th["t2"].seen = _coingecko_map_cache
    /\ call.th["t2"].seen \in CompleteMaps \ {EmptyMap}
    /\ call.th["t2"].seen # call.th["t1"].m

\* the threads whose catalog request is in flight
InFlight == {t \in Threads : call.th[t].pc = "inflight"}

\* C13: concurrent callers that find the symbol map empty or expired share
\* one rebuild: at most one catalog request is in flight at any time.
C13_SingleFlight ==
    call.op = "threads" => Cardinality(InFlight) <= 1

-----------------------------------------------------------------------------
(* Properties of the renderer (SpecRender).                                *)

RenderCall == call.op = "sparkline_svg_from_prices"

\* the numeric values of the series of the call
Numeric == {i \in 1..Len(call.prices) : call.prices[i].k = "num"}

\* the call drew a polyline
Drew == RenderCall /\ ~call.raised /\ call.svg.kind = "polyline"

\* C14: a drawn series of n >= 2 points has its first point at x = 0, its
\* last at x = width, and point i (from 0) at x = i * width / (n - 1), as
\* printed with two decimals.
C14_FullWidth ==
    (Drew /\ Cardinality(Numeric) >= 2) =>
        LET n == Len(call.svg.points)
        IN  /\ n = Cardinality(Numeric)
            /\ call.svg.points[1].x = 0
            /\ call.svg.points[n].x = 100 * call.width
            /\ \A i \in 0..(n - 1) :
                   call.svg.points[i + 1].x = fmt2(Frac(i * call.width, n - 1))

\* three points: 0, half the width, the width
C14_Witness ==
    /\ Drew /\ Len(call.prices) = 3 /\ Cardinality(Numeric) = 3
    /\ call.width = 140
    /\ call.svg.points[1].x = 0
    /\ call.svg.points[2].x = 7000
    /\ call.svg.points[3].x = 14000

\* C15: the drawing of [p] is the drawing of [p, p], for every value p and
\* every width, height and stroke.
C15_SingleAsPair ==
    (RenderCall /\ Len(call.prices) = 1) =>
        LET pair == sparkline_svg_from_prices(<<call.prices[1], call.prices[1]>>,
                                              call.width, call.height, call.stroke)
        IN  call.raised = pair.raised /\ call.svg = pair.svg

\* [100] is drawn as a flat line of two points across the width
C15_Witness ==
    /\ Drew /\ call.prices = <<Num(100)>>
    /\ Len(call.svg.points) = 2
    /\ call.svg.points[1].x = 0 /\ call.svg.points[2].x = 100 * call.width
    /\ call.svg.points[1].y = call.svg.points[2].y

\* C16: for an empty series and for a series of absent values only, the
\* renderer does not raise and returns a drawing of the requested width and
\* height without polyline points.
C16_EmptyDrawing ==
    (RenderCall /\ \A i \in 1..Len(call.prices) : call.prices[i] = None) =>
        /\ ~call.raised
        /\ call.svg.kind \in {"rect", "empty"}
        /\ call.svg.width = call.width /\ call.svg.height = call.height
        /\ call.svg.points = <<>>

\* a series of two absent values
C16_Witness ==
    /\ RenderCall /\ call.prices = <<None, None>>
    /\ ~call.raised /\ call.svg.kind = "empty" /\ call.svg.points = <<>>
    /\ call.svg.width = call.width

\* the first and the last numeric value of the series of the call
FirstValue == call.prices[CHOOSE i \in Numeric : \A j \in Numeric : i <= j].v
LastValue == call.prices[CHOOSE i \in Numeric : \A j \in Numeric : i >= j].v

\* C17: for a non-empty numeric series the renderer does not raise and the
\* colour is neutral when the first point is zero or equals the last, up
\* when the last point is greater than the first, down when it is less.
C17_ColourByDirection ==
    (RenderCall /\ call.prices # <<>> /\ Numeric = 1..Len(call.prices)) =>
        /\ Drew
        /\ call.svg.color =
               IF FirstValue = 0 \/ LastValue = FirstValue THEN NeutralColor
               ELSE IF LastValue > FirstValue THEN UpColor
               ELSE DownColor

====
